---- MODULE Spec2Model ----
(***************************************************************************)
(* Model of src/datafun_03_analytics/jugurtha_csv_pipeline.py: the CSV     *)
(* ETVL pipeline (extract_csv_orders, transform_orders_to_stats,           *)
(* load_stats_report, run_csv_pipeline).                                   *)
(*                                                                         *)
(* Text is a sequence of one-character strings, so that strip(), float(),  *)
(* string comparison and f-string formatting are computed, not assumed.    *)
(* A Python float is a record: a finite value is an exact reduced fraction *)
(* num/den, and nan, inf and -inf are values of their own.  The amounts    *)
(* the model reads are dyadic (25, 50.5, 100.00, ...), for which the       *)
(* additions of the code are exact in binary floating point.               *)
(***************************************************************************)
EXTENDS Integers, Sequences, FiniteSets, TLC

\* ------------------------------------------------------------------ bounds
MaxRows == 3
MaxAmounts == 3
MaxKeys == 3

\* -------------------------------------------------------------------- text
Whitespace == {" "}

Digits == <<"0", "1", "2", "3", "4", "5", "6", "7", "8", "9">>

DigitSet == {Digits[i] : i \in 1..10}

DigitVal(c) == (CHOOSE i \in 1..10 : Digits[i] = c) - 1

\* The characters of the model in code point order: str comparison compares
\* code points, and only their relative order matters.
Alphabet == <<" ", "$", "+", "-", ".",
              "0", "1", "2", "3", "4", "5", "6", "7", "8", "9", ":",
              "A", "C", "N", "T", "X", "Y", "a", "b", "c", "d", "n">>

Ord(c) == CHOOSE i \in 1..Len(Alphabet) : Alphabet[i] = c

RECURSIVE LStrip(_)
LStrip(s) == IF s # <<>> /\ Head(s) \in Whitespace THEN LStrip(Tail(s)) ELSE s

RECURSIVE RStrip(_)
RStrip(s) ==
  IF s # <<>> /\ s[Len(s)] \in Whitespace THEN RStrip(SubSeq(s, 1, Len(s) - 1)) ELSE s

\* str.strip()
Strip(s) == RStrip(LStrip(s))

\* str < str: lexicographic by code point, a proper prefix is smaller
RECURSIVE StrLt(_, _)
StrLt(a, b) ==
  IF b = <<>> THEN FALSE
  ELSE IF a = <<>> THEN TRUE
  ELSE IF Head(a) # Head(b) THEN Ord(Head(a)) < Ord(Head(b))
  ELSE StrLt(Tail(a), Tail(b))

\* "-" * 30
Repeat(c, n) == [i \in 1..n |-> c]

RECURSIVE NatToText(_)
NatToText(n) ==
  IF n < 10 THEN <<Digits[n + 1]>> ELSE NatToText(n \div 10) \o <<Digits[(n % 10) + 1]>>

\* f"{i}" of an int
IntToText(i) == IF i < 0 THEN <<"-">> \o NatToText(-i) ELSE NatToText(i)

\* ------------------------------------------------------------------ floats
Abs(i) == IF i < 0 THEN -i ELSE i

RECURSIVE GCD(_, _)
GCD(a, b) == IF b = 0 THEN a ELSE GCD(b, a % b)

\* the finite float n/d (d > 0), reduced
Fin(n, d) ==
  LET g == GCD(Abs(n), d) IN [k |-> "fin", num |-> n \div g, den |-> d \div g]

NaN == [k |-> "nan", num |-> 0, den |-> 1]

\* inf (s = 1) and -inf (s = -1)
Inf(s) == [k |-> "inf", num |-> s, den |-> 1]

\* float < float (IEEE 754: every comparison with nan is false)
FLt(a, b) ==
  IF a.k = "nan" \/ b.k = "nan" THEN FALSE
  ELSE IF a.k = "inf" THEN a.num < 0 /\ ~(b.k = "inf" /\ b.num < 0)
  ELSE IF b.k = "inf" THEN b.num > 0
  ELSE a.num * b.den < b.num * a.den

\* float + float
FAdd(a, b) ==
  IF a.k = "nan" \/ b.k = "nan" THEN NaN
  ELSE IF a.k = "inf" /\ b.k = "inf" THEN (IF a.num = b.num THEN a ELSE NaN)
  ELSE IF a.k = "inf" THEN a
  ELSE IF b.k = "inf" THEN b
  ELSE Fin(a.num * b.den + b.num * a.den, a.den * b.den)

\* float / n for an int n > 0
FDivInt(a, n) == IF a.k = "fin" THEN Fin(a.num, a.den * n) ELSE a

RECURSIVE DigitsToNat(_)
DigitsToNat(s) ==
  IF s = <<>> THEN 0 ELSE DigitsToNat(SubSeq(s, 1, Len(s) - 1)) * 10 + DigitVal(s[Len(s)])

RECURSIVE Pow10(_)
Pow10(n) == IF n = 0 THEN 1 ELSE 10 * Pow10(n - 1)

AllDigits(s) == \A i \in 1..Len(s) : s[i] \in DigitSet

\* float(text) for text without sign: digits with at most one ".", and at least
\* one digit; "nan" and "inf".  ok = FALSE stands for ValueError.
ParseUnsigned(s) ==
  IF s = <<"n", "a", "n">> THEN [ok |-> TRUE, val |-> NaN]
  ELSE IF s = <<"i", "n", "f">> THEN [ok |-> TRUE, val |-> Inf(1)]
  ELSE LET dots == {i \in 1..Len(s) : s[i] = "."}
       IN IF Cardinality(dots) > 1 THEN [ok |-> FALSE, val |-> NaN]
          ELSE LET p == IF dots = {} THEN Len(s) + 1 ELSE CHOOSE i \in dots : TRUE
                   ip == SubSeq(s, 1, p - 1)
                   fp == SubSeq(s, p + 1, Len(s))
               IN IF AllDigits(ip) /\ AllDigits(fp) /\ Len(ip) + Len(fp) > 0
                  THEN [ok |-> TRUE,
                        val |-> Fin(DigitsToNat(ip) * Pow10(Len(fp)) + DigitsToNat(fp),
                                    Pow10(Len(fp)))]
                  ELSE [ok |-> FALSE, val |-> NaN]

FNeg(a) == IF a.k = "nan" THEN a ELSE [a EXCEPT !.num = -a.num]

\* float(text), text already stripped: an optional sign, then ParseUnsigned
ParseFloat(s) ==
  IF s # <<>> /\ Head(s) \in {"+", "-"}
  THEN LET r == ParseUnsigned(Tail(s))
       IN IF r.ok /\ Head(s) = "-" THEN [ok |-> TRUE, val |-> FNeg(r.val)] ELSE r
  ELSE ParseUnsigned(s)

TwoDigits(n) == <<Digits[(n \div 10) + 1], Digits[(n % 10) + 1]>>

\* f"{x:.2f}": two decimals, round half to even on the exact value, the sign
\* kept even when the magnitude rounds to zero
Fmt2(x) ==
  IF x.k = "nan" THEN <<"n", "a", "n">>
  ELSE IF x.k = "inf" THEN (IF x.num < 0 THEN <<"-">> ELSE <<>>) \o <<"i", "n", "f">>
  ELSE LET a == Abs(x.num) * 100
           q == a \div x.den
           r == a % x.den
           h == IF 2 * r > x.den THEN q + 1
                ELSE IF 2 * r = x.den THEN q + (q % 2)
                ELSE q
       IN (IF x.num < 0 THEN <<"-">> ELSE <<>>)
            \o NatToText(h \div 100) \o <<".">> \o TwoDigits(h % 100)

\* int(x) of a finite float: truncation toward zero
IntOf(x) == IF x.num < 0 THEN -(Abs(x.num) \div x.den) ELSE x.num \div x.den

\* ------------------------------------------------------------------- dicts
\* A dict is the sequence of its <<key, value>> items in insertion order.
DictKeys(d) == {d[i][1] : i \in 1..Len(d)}

DictHas(d, key) == key \in DictKeys(d)

DictGet(d, key) == d[CHOOSE i \in 1..Len(d) : d[i][1] = key][2]

\* d[key] = v: an existing key keeps its place, a new key is appended
DictSet(d, key, v) ==
  IF DictHas(d, key)
  THEN [i \in 1..Len(d) |-> IF d[i][1] = key THEN <<key, v>> ELSE d[i]]
  ELSE Append(d, <<key, v>>)

\* ----------------------------------------------------------- the CSV file
\* The input file as csv.DictReader sees it: exists is Path.exists(),
\* has_header is "reader.fieldnames is not None" (the file has a first line),
\* fieldnames the header's column names, rows the data rows, each the list of
\* its raw cell texts in column order.
NoFile == [exists |-> FALSE, has_header |-> FALSE, fieldnames |-> <<>>, rows |-> <<>>]

EmptyFile == [exists |-> TRUE, has_header |-> FALSE, fieldnames |-> <<>>, rows |-> <<>>]

CsvFile(names, rs) ==
  [exists |-> TRUE, has_header |-> TRUE, fieldnames |-> names, rows |-> rs]

Range(s) == {s[i] : i \in 1..Len(s)}

SetMax(S) == CHOOSE x \in S : \A y \in S : y <= x

\* (row.get(col) or ""): DictReader zips the header with the row's cells (the
\* last of two equal names wins); a column the header or the row lacks reads
\* as None, which "or" turns into the empty text
RawField(fieldnames, row, col) ==
  LET idx == {i \in 1..Len(fieldnames) : fieldnames[i] = col /\ i <= Len(row)}
  IN IF idx = {} THEN <<>> ELSE row[SetMax(idx)]

\* Python's "a and b" on two str: a when a is empty (falsy), else b
PyAnd(a, b) == IF a = "" THEN a ELSE b

NoExc == [type |-> "none", line |-> 0]

Exc(t, l) == [type |-> t, line |-> l]

\* the check of lines 57-60: does extract raise the missing-column KeyError?
MissingColumnCheck(file, amount_col, state_col) ==
  \/ ~file.has_header
  \/ PyAnd(amount_col, state_col) \notin Range(file.fieldnames)

\* One pass of the loop body, lines 66-78, on the accumulator
\* [exc, amounts, state_totals].
ProcessRow(fieldnames, row, amount_col, state_col, acc) ==
  LET raw_amount == Strip(RawField(fieldnames, row, amount_col))
      state == Strip(RawField(fieldnames, row, state_col))
      p == ParseFloat(raw_amount)
  IN IF raw_amount = <<>> \/ state = <<>> THEN acc
     ELSE IF ~p.ok THEN acc
     ELSE IF ~DictHas(acc.state_totals, state)
          \* line 78 reads state_totals[state] before it assigns it
          THEN [acc EXCEPT !.exc = Exc("KeyError", 78),
                           !.amounts = Append(acc.amounts, p.val)]
          ELSE [acc EXCEPT !.amounts = Append(acc.amounts, p.val),
                           !.state_totals =
                              DictSet(acc.state_totals, state,
                                      FAdd(DictGet(acc.state_totals, state), p.val))]

\* for row in reader: ... (an exception leaves the loop); i rows were read
RECURSIVE ExtractRows(_, _, _, _, _, _)
ExtractRows(fieldnames, rows, i, amount_col, state_col, acc) ==
  IF i = Len(rows) \/ acc.exc # NoExc
  THEN [exc |-> acc.exc, opened |-> TRUE, rows_read |-> i,
        ret |-> IF acc.exc = NoExc THEN <<acc.amounts, acc.state_totals>> ELSE <<>>]
  ELSE ExtractRows(fieldnames, rows, i + 1, amount_col, state_col,
                   ProcessRow(fieldnames, rows[i + 1], amount_col, state_col, acc))

\* mutant of extract_csv_orders: the header is checked before the path
extract_header_check_first(file, amount_col, state_col) ==
  IF MissingColumnCheck(file, amount_col, state_col)
  THEN [exc |-> Exc("KeyError", 61), opened |-> TRUE, rows_read |-> 0, ret |-> <<>>]
  ELSE IF ~file.exists
  THEN [exc |-> Exc("FileNotFoundError", 48), opened |-> FALSE, rows_read |-> 0,
        ret |-> <<>>]
  ELSE ExtractRows(file.fieldnames, file.rows, 0, amount_col, state_col,
                   [exc |-> NoExc, amounts |-> <<>>, state_totals |-> <<>>])

\* extract_csv_orders: exc is the exception raised (NoExc: none) with the line
\* that raises it, ret the returned tuple (empty when it raises), opened
\* whether the file was opened, rows_read how many data rows were iterated.
extract_csv_orders(file, amount_col, state_col) ==
  IF ~file.exists
  THEN [exc |-> Exc("FileNotFoundError", 48), opened |-> FALSE, rows_read |-> 0,
        ret |-> <<>>]
  ELSE IF MissingColumnCheck(file, amount_col, state_col)
  THEN [exc |-> Exc("KeyError", 61), opened |-> TRUE, rows_read |-> 0, ret |-> <<>>]
  ELSE ExtractRows(file.fieldnames, file.rows, 0, amount_col, state_col,
                   [exc |-> NoExc, amounts |-> <<>>, state_totals |-> <<>>])

\* -------------------------------------------------------------- statistics
\* min(amounts): the first item, replaced by each later item that is < it
RECURSIVE MinFrom(_, _, _)
MinFrom(s, i, cur) ==
  IF i > Len(s) THEN cur ELSE MinFrom(s, i + 1, IF FLt(s[i], cur) THEN s[i] ELSE cur)

\* mutant of PyMin: the first item, whatever follows
PyMin_first(s) == s[1]

PyMin(s) == MinFrom(s, 2, s[1])

\* max(amounts): the first item, replaced by each later item that is > it
RECURSIVE MaxFrom(_, _, _)
MaxFrom(s, i, cur) ==
  IF i > Len(s) THEN cur ELSE MaxFrom(s, i + 1, IF FLt(cur, s[i]) THEN s[i] ELSE cur)

PyMax(s) == MaxFrom(s, 2, s[1])

RECURSIVE FSum(_)
FSum(s) == IF s = <<>> THEN Fin(0, 1) ELSE FAdd(FSum(SubSeq(s, 1, Len(s) - 1)), s[Len(s)])

\* statistics.mean: the exact sum divided by the number of items
StatMean(s) == FDivInt(FSum(s), Len(s))

\* mutant of transform_orders_to_stats: zeros for the empty list, no ValueError
transform_zeros_on_empty(amounts) ==
  [exc |-> NoExc,
   ret |-> <<[count |-> Fin(Len(amounts), 1),
              min |-> IF amounts = <<>> THEN Fin(0, 1) ELSE PyMin(amounts),
              max |-> IF amounts = <<>> THEN Fin(0, 1) ELSE PyMax(amounts),
              mean |-> IF amounts = <<>> THEN Fin(0, 1) ELSE StatMean(amounts)]>>]

\* transform_orders_to_stats: ret is the returned dict in a 1-tuple, empty
\* when it raises
transform_orders_to_stats(amounts) ==
  IF amounts = <<>>
  THEN [exc |-> Exc("ValueError", 94), ret |-> <<>>]
  ELSE [exc |-> NoExc,
        ret |-> <<[count |-> Fin(Len(amounts), 1),
                   min |-> PyMin(amounts),
                   max |-> PyMax(amounts),
                   mean |-> StatMean(amounts)]>>]

\* ------------------------------------------------------------------ report
\* tuple < tuple for the (state, total) items: the keys decide, equal keys
\* fall through to the totals
ItemLt(p, q) == StrLt(p[1], q[1]) \/ (p[1] = q[1] /\ FLt(p[2], q[2]))

\* insert item p into the sorted sequence s, after the items not greater
RECURSIVE InsertSorted(_, _)
InsertSorted(s, p) ==
  IF s = <<>> THEN <<p>>
  ELSE IF ItemLt(p, Head(s)) THEN <<p>> \o s
  ELSE <<Head(s)>> \o InsertSorted(Tail(s), p)

\* mutant of Sorted: the items in insertion order
Unsorted(d) == d

\* sorted(state_totals.items()): a stable sort, ascending
RECURSIVE Sorted(_)
Sorted(d) ==
  IF d = <<>> THEN <<>> ELSE InsertSorted(Sorted(SubSeq(d, 1, Len(d) - 1)), d[Len(d)])

TitleLine == <<"C", "u", "s", "t", "o", "m", "e", "r", " ", "O", "r", "d", "e", "r", "s", " ", "S", "t", "a", "t", "i", "s", "t", "i", "c", "s">>

RuleLine == Repeat("-", 30)

TotalsTitleLine == <<"T", "o", "t", "a", "l", " ", "O", "r", "d", "e", "r", " ", "A", "m", "o", "u", "n", "t", " ", "b", "y", " ", "S", "t", "a", "t", "e">>

\* f"{state}: ${total:.2f}\n"
StateLine(item) == item[1] \o <<":", " ", "$">> \o Fmt2(item[2])

\* The output location: dir is whether out_path.parent exists, file the
\* file at out_path, absent (<<>>) or <<its lines>>.
\* load_stats_report: mkdir(parents=True, exist_ok=True), then open "w"
\* (which truncates) and the writes of lines 119-131; a line is written with
\* its "\n".
load_stats_report(stats, state_totals, out) ==
  LET items == Sorted(state_totals)
      lines == << TitleLine,
                  RuleLine,
                  <<"C", "o", "u", "n", "t", ":", " ">> \o IntToText(IntOf(stats.count)),
                  <<"M", "i", "n", "i", "m", "u", "m", ":", " ">> \o Fmt2(stats.min),
                  <<"M", "a", "x", "i", "m", "u", "m", ":", " ">> \o Fmt2(stats.max),
                  <<"M", "e", "a", "n", ":", " ">> \o Fmt2(stats.mean),
                  TotalsTitleLine,
                  RuleLine >>
                \o [i \in 1..Len(items) |-> StateLine(items[i])]
  IN [dir |-> TRUE, file |-> <<lines>>]

\* ---------------------------------------------------------------- pipeline
AmountCol == "AmountSpentUSD"

StateCol == "State"

OutputFile == "csv_customers_orders_stats.txt"

Info(msg) == [ev |-> "info", what |-> msg]

Stage(name) == [ev |-> "call", what |-> name]

\* mutant of run_csv_pipeline: a failed stage does not stop the run, the
\* report is written with what there is
run_csv_pipeline_keeps_going(file, out) ==
  LET ex == extract_csv_orders(file, AmountCol, StateCol)
      amounts == IF ex.exc = NoExc THEN ex.ret[1] ELSE <<>>
      totals == IF ex.exc = NoExc THEN ex.ret[2] ELSE <<>>
      tr == transform_orders_to_stats(amounts)
      zero == [count |-> Fin(0, 1), min |-> Fin(0, 1), max |-> Fin(0, 1), mean |-> Fin(0, 1)]
  IN [events |-> <<Info("CSV: START"), Stage("extract_csv_orders"),
                   Stage("transform_orders_to_stats"), Stage("load_stats_report"),
                   Info("CSV: wrote " \o OutputFile), Info("CSV: END")>>,
      exc |-> IF ex.exc # NoExc THEN ex.exc ELSE tr.exc,
      out |-> load_stats_report(IF tr.exc = NoExc THEN tr.ret[1] ELSE zero, totals, out)]

\* mutant of run_csv_pipeline: the END notice is logged on every exit, as
\* from a finally block
run_csv_pipeline_logs_end(file, out) ==
  LET e1 == <<Info("CSV: START"), Stage("extract_csv_orders")>>
      ex == extract_csv_orders(file, AmountCol, StateCol)
  IN IF ex.exc # NoExc
     THEN [events |-> Append(e1, Info("CSV: END")), exc |-> ex.exc, out |-> out]
     ELSE LET e2 == Append(e1, Stage("transform_orders_to_stats"))
              tr == transform_orders_to_stats(ex.ret[1])
          IN IF tr.exc # NoExc
             THEN [events |-> Append(e2, Info("CSV: END")), exc |-> tr.exc, out |-> out]
             ELSE [events |-> e2 \o <<Stage("load_stats_report"),
                                      Info("CSV: wrote " \o OutputFile),
                                      Info("CSV: END")>>,
                   exc |-> NoExc,
                   out |-> load_stats_report(tr.ret[1], ex.ret[2], out)]

\* run_csv_pipeline on the file at raw_dir/customers_orders.csv and the
\* output location processed_dir/csv_customers_orders_stats.txt.  events is
\* what happened in order: logger.info calls and the stages entered; exc the
\* exception that reaches the caller; out the output location afterwards.
run_csv_pipeline(file, out) ==
  LET e1 == <<Info("CSV: START"), Stage("extract_csv_orders")>>
      ex == extract_csv_orders(file, AmountCol, StateCol)
  IN IF ex.exc # NoExc THEN [events |-> e1, exc |-> ex.exc, out |-> out]
     ELSE LET e2 == Append(e1, Stage("transform_orders_to_stats"))
              tr == transform_orders_to_stats(ex.ret[1])
          IN IF tr.exc # NoExc THEN [events |-> e2, exc |-> tr.exc, out |-> out]
             ELSE [events |-> e2 \o <<Stage("load_stats_report"),
                                      Info("CSV: wrote " \o OutputFile),
                                      Info("CSV: END")>>,
                   exc |-> NoExc,
                   out |-> load_stats_report(tr.ret[1], ex.ret[2], out)]

\* ------------------------------------------------------------------ inputs
AmountCells == {<<>>, <<"b", "a", "d">>, <<"2", "5">>, <<" ", "5", "0", ".", "5", " ">>}

StateCells == {<<>>, <<"C", "A">>, <<" ", "N", "Y", " ">>}

\* a data row: the amount cell, then the state cell
Rows == AmountCells \X StateCells

RowSeqs == UNION {[1..n -> Rows] : n \in 0..MaxRows}

Headers == {<<AmountCol, StateCol>>, <<"Name", StateCol>>, <<AmountCol>>, <<"Name">>}

\* the file of the end-to-end scenario
ScenarioFile ==
  CsvFile(<<AmountCol, StateCol>>,
          << <<<<"1", "0", "0", ".", "0", "0">>, <<"C", "A">>>>,
             <<<<"5", "0", ".", "5">>, <<"N", "Y">>>>,
             <<<<"b", "a", "d">>, <<"C", "A">>>>,
             <<<<>>, <<"T", "X">>>>,
             <<<<"2", "5">>, <<"C", "A">>>> >>)

Files ==
  {NoFile, EmptyFile, ScenarioFile} \cup {CsvFile(h, rs) : h \in Headers, rs \in RowSeqs}

OldReport == <<<<"o", "l", "d">>>>

NoOutput == [dir |-> FALSE, file |-> <<>>]

OutStates == {NoOutput, [dir |-> TRUE, file |-> <<>>], [dir |-> TRUE, file |-> <<OldReport>>]}

FloatVals == {Fin(25, 1), Fin(101, 2), Fin(100, 1), NaN, Inf(1), Inf(-1)}

AmountSeqs == UNION {[1..n -> FloatVals] : n \in 0..MaxAmounts}

Labels == {<<"C", "A">>, <<"N", "Y">>, <<"C">>, <<"c", "a">>}

TotalVals == {Fin(21, 2), Fin(30, 1)}

\* the dicts of at most MaxKeys keys, in every insertion order
TotalsDicts ==
  {d \in UNION {[1..n -> Labels \X TotalVals] : n \in 0..MaxKeys} :
     \A i, j \in 1..Len(d) : i # j => d[i][1] # d[j][1]}

StatsSet ==
  {[count |-> Fin(3, 1), min |-> Fin(25, 1), max |-> Fin(100, 1), mean |-> Fin(117, 2)],
   [count |-> Fin(4, 1), min |-> Fin(0, 1), max |-> Fin(1, 2), mean |-> Fin(1, 8)]}

\* ------------------------------------------------------------------- state
VARIABLES
  inputFile,  \* the file at raw_dir/customers_orders.csv
  out,        \* the output location processed_dir/csv_customers_orders_stats.txt
  call,       \* the function the caller has called, "none" before the call
  arg,        \* what the call was given
  result      \* what the call raised or returned

vars == <<inputFile, out, call, arg, result>>

NoResult == [exc |-> NoExc]

Init ==
  /\ inputFile \in Files
  /\ out \in {NoOutput, [dir |-> TRUE, file |-> <<OldReport>>]}
  /\ call = "none"
  /\ arg = <<>>
  /\ result = NoResult

CallExtract ==
  /\ call = "none"
  /\ call' = "extract_csv_orders"
  /\ arg' = <<AmountCol, StateCol>>
  /\ result' = extract_csv_orders(inputFile, AmountCol, StateCol)
  /\ UNCHANGED <<inputFile, out>>

RunPipeline ==
  /\ call = "none"
  /\ call' = "run_csv_pipeline"
  /\ arg' = <<out>>
  /\ LET r == run_csv_pipeline(inputFile, out)
     IN /\ result' = [exc |-> r.exc, events |-> r.events]
        /\ out' = r.out
  /\ UNCHANGED inputFile

Next == CallExtract \/ RunPipeline

Spec == Init /\ [][Next]_vars

\* transform_orders_to_stats called on its own
InitStats ==
  /\ inputFile = NoFile
  /\ out = NoOutput
  /\ call = "none"
  /\ arg = <<>>
  /\ result = NoResult

CallTransform ==
  /\ call = "none"
  /\ \E amounts \in AmountSeqs :
       /\ arg' = amounts
       /\ result' = transform_orders_to_stats(amounts)
  /\ call' = "transform_orders_to_stats"
  /\ UNCHANGED <<inputFile, out>>

NextStats == CallTransform

SpecStats == InitStats /\ [][NextStats]_vars

\* load_stats_report called on its own
InitLoad ==
  /\ inputFile = NoFile
  /\ out \in OutStates
  /\ call = "none"
  /\ arg = <<>>
  /\ result = NoResult

CallLoad ==
  /\ call = "none"
  /\ \E stats \in StatsSet, state_totals \in TotalsDicts :
       /\ arg' = <<stats, state_totals, out>>
       /\ out' = load_stats_report(stats, state_totals, out)
  /\ call' = "load_stats_report"
  /\ result' = NoResult
  /\ UNCHANGED inputFile

NextLoad == CallLoad

SpecLoad == InitLoad /\ [][NextLoad]_vars

\* ------------------------------------------------------------------ claims
\* What the claims speak of, stated from the row policy and not from the loop:
\* a row is valid when both trimmed fields are non-empty and the amount parses.
HasBoth(file) ==
  /\ file.has_header
  /\ AmountCol \in Range(file.fieldnames)
  /\ StateCol \in Range(file.fieldnames)

AmountText(file, row) == Strip(RawField(file.fieldnames, row, AmountCol))

StateKey(file, row) == Strip(RawField(file.fieldnames, row, StateCol))

ValidRow(file, row) ==
  /\ AmountText(file, row) # <<>>
  /\ StateKey(file, row) # <<>>
  /\ ParseFloat(AmountText(file, row)).ok

ValidRows(file) == SelectSeq(file.rows, LAMBDA row : ValidRow(file, row))

ExpectedAmounts(file) ==
  [i \in 1..Len(ValidRows(file)) |-> ParseFloat(AmountText(file, ValidRows(file)[i])).val]

ExpectedKeys(file) == {StateKey(file, ValidRows(file)[i]) : i \in 1..Len(ValidRows(file))}

ExpectedTotal(file, key) ==
  LET mine == SelectSeq(ValidRows(file), LAMBDA row : StateKey(file, row) = key)
  IN FSum([i \in 1..Len(mine) |-> ParseFloat(AmountText(file, mine[i])).val])

Extracted == call = "extract_csv_orders"

Ran == call = "run_csv_pipeline"

\* the stages a run entered, in order
StagesOf(events) ==
  LET cs == SelectSeq(events, LAMBDA e : e.ev = "call") IN [i \in 1..Len(cs) |-> cs[i].what]

StageOrder == <<"extract_csv_orders", "transform_orders_to_stats", "load_stats_report">>

IsPrefix(s, t) == Len(s) <= Len(t) /\ s = SubSeq(t, 1, Len(s))

\* C1: for every file whose header has both columns, extract returns totals
\* whose keys are exactly the states of the valid rows, each with the sum of
\* the amounts of the valid rows of that state (a first-seen key starts at 0).
C1_TotalsAreSums ==
  (Extracted /\ inputFile.exists /\ HasBoth(inputFile)) =>
    /\ result.exc = NoExc
    /\ DictKeys(result.ret[2]) = ExpectedKeys(inputFile)
    /\ \A key \in DictKeys(result.ret[2]) :
         DictGet(result.ret[2], key) = ExpectedTotal(inputFile, key)

\* C2: extract raises the missing-column KeyError, before any row is read,
\* whenever the header is absent or lacks the amount column or the state column.
C2_MissingColumnRejected ==
  (Extracted /\ inputFile.exists /\ ~HasBoth(inputFile)) =>
    /\ result.exc = Exc("KeyError", 61)
    /\ result.rows_read = 0

\* C3: for every file with both columns and at least one valid row, extract
\* returns without raising, and the amounts are the parsed amounts of the
\* valid rows in row order (skipped rows contribute nothing).
C3_AmountsAreValidRows ==
  (Extracted /\ inputFile.exists /\ HasBoth(inputFile) /\ ValidRows(inputFile) # <<>>) =>
    /\ result.exc = NoExc
    /\ result.ret[1] = ExpectedAmounts(inputFile)

\* C4: on the scenario file extract returns [100.00, 50.5, 25] and
\* {CA: 125.00, NY: 50.5}, and the run ends without error with a report of
\* count 3, min 25, max 100, mean 58.5 and the lines CA: $125.00, NY: $50.50.
C4_Scenario ==
  (inputFile = ScenarioFile) =>
    /\ Extracted =>
         /\ result.exc = NoExc
         /\ result.ret = << <<Fin(100, 1), Fin(101, 2), Fin(25, 1)>>,
                            << <<<<"C", "A">>, Fin(125, 1)>>, <<<<"N", "Y">>, Fin(101, 2)>> >> >>
    /\ Ran =>
         /\ result.exc = NoExc
         /\ out.file # <<>>
         /\ Len(out.file[1]) = 10
         /\ out.file[1][3] = <<"C", "o", "u", "n", "t", ":", " ", "3">>
         /\ out.file[1][4] = <<"M", "i", "n", "i", "m", "u", "m", ":", " ", "2", "5", ".", "0", "0">>
         /\ out.file[1][5] = <<"M", "a", "x", "i", "m", "u", "m", ":", " ", "1", "0", "0", ".", "0", "0">>
         /\ out.file[1][6] = <<"M", "e", "a", "n", ":", " ", "5", "8", ".", "5", "0">>
         /\ out.file[1][9] = <<"C", "A", ":", " ", "$", "1", "2", "5", ".", "0", "0">>
         /\ out.file[1][10] = <<"N", "Y", ":", " ", "$", "5", "0", ".", "5", "0">>

\* float <= float and float == float (false when either is nan)
FLe(a, b) == a.k # "nan" /\ b.k # "nan" /\ ~FLt(b, a)

IsSmallest(m, s) == m \in Range(s) /\ \A i \in 1..Len(s) : FLe(m, s[i])

IsLargest(m, s) == m \in Range(s) /\ \A i \in 1..Len(s) : FLe(s[i], m)

\* mean = sum / count by cross-multiplication over the elements' fractions;
\* with an infinite element the sum, and so the mean, is that infinity
RECURSIVE DenProduct(_)
DenProduct(s) == IF s = <<>> THEN 1 ELSE Head(s).den * DenProduct(Tail(s))

RECURSIVE ScaledSum(_, _)
ScaledSum(s, d) ==
  IF s = <<>> THEN 0 ELSE Head(s).num * (d \div Head(s).den) + ScaledSum(Tail(s), d)

IsMean(m, s) ==
  IF \A i \in 1..Len(s) : s[i].k = "fin"
  THEN /\ m.k = "fin"
       /\ m.num * Len(s) * DenProduct(s) = m.den * ScaledSum(s, DenProduct(s))
  ELSE /\ m.k = "inf"
       /\ \E i \in 1..Len(s) : s[i] = m

Reorderings(s) ==
  {[i \in 1..Len(s) |-> s[p[i]]] :
     p \in {q \in [1..Len(s) -> 1..Len(s)] : \A i, j \in 1..Len(s) : i # j => q[i] # q[j]}}

Transformed == call = "transform_orders_to_stats"

StatsContract(s) ==
  /\ result.exc = NoExc
  /\ Len(result.ret) = 1
  /\ result.ret[1].count = Fin(Len(s), 1)
  /\ IsSmallest(result.ret[1].min, s)
  /\ IsLargest(result.ret[1].max, s)
  /\ IsMean(result.ret[1].mean, s)
  /\ FLe(result.ret[1].min, result.ret[1].mean)
  /\ FLe(result.ret[1].mean, result.ret[1].max)
  /\ \A t \in Reorderings(s) : transform_orders_to_stats(t) = result

\* the sum of s is defined: no nan, and not both inf and -inf
SumDefined(s) ==
  /\ \A i \in 1..Len(s) : s[i].k # "nan"
  /\ ~(Inf(1) \in Range(s) /\ Inf(-1) \in Range(s))

\* C5 as claimed: summarize raises on the empty sequence, and for every
\* non-empty sequence returns count, the smallest and the largest element and
\* sum / count, with min <= mean <= max, the same for every permutation.
C5_StatsOfEverySequence ==
  Transformed =>
    IF arg = <<>>
    THEN result.exc = Exc("ValueError", 94) /\ result.ret = <<>>
    ELSE StatsContract(arg)

\* C5 amended: the same, for the non-empty sequences whose sum is defined
\* (no nan, and not both inf and -inf).
C5_StatsOfSummableSequence ==
  Transformed =>
    IF arg = <<>>
    THEN result.exc = Exc("ValueError", 94) /\ result.ret = <<>>
    ELSE SumDefined(arg) => StatsContract(arg)

C5_Witness ==
  /\ Transformed
  /\ arg = <<Fin(100, 1), Fin(25, 1), Fin(101, 2)>>
  /\ result.ret[1].min = Fin(25, 1)
  /\ result.ret[1].mean = Fin(117, 2)

\* C6: a run enters the stages in the order extract, transform, load, each at
\* most once; when extract or transform raises, the run stops there, load is
\* not entered, the output location is as it was, and that exception is the
\* run's.
C6_StagesInOrderAbortOnFailure ==
  Ran =>
    LET stages == StagesOf(result.events)
        ex == extract_csv_orders(inputFile, AmountCol, StateCol)
    IN /\ stages # <<>>
       /\ IsPrefix(stages, StageOrder)
       /\ ex.exc # NoExc =>
            /\ stages = <<"extract_csv_orders">>
            /\ result.exc = ex.exc
            /\ out = arg[1]
       /\ (ex.exc = NoExc /\ transform_orders_to_stats(ex.ret[1]).exc # NoExc) =>
            /\ stages = <<"extract_csv_orders", "transform_orders_to_stats">>
            /\ result.exc = transform_orders_to_stats(ex.ret[1]).exc
            /\ out = arg[1]
       /\ result.exc # NoExc => out = arg[1]

C6_Witness ==
  /\ Ran
  /\ result.exc = Exc("ValueError", 94)
  /\ arg[1].file = <<OldReport>>
  /\ out.file = <<OldReport>>

\* lexicographic order stated without recursion: the first difference decides,
\* and a proper prefix comes first
LexLess(a, b) ==
  \E n \in 0..Len(a) :
    /\ n <= Len(b)
    /\ \A i \in 1..n : a[i] = b[i]
    /\ \/ n = Len(a) /\ n < Len(b)
       \/ n < Len(a) /\ n < Len(b) /\ Ord(a[n + 1]) < Ord(b[n + 1])

\* the label of a category line: the text before its first ":"
LabelOf(line) ==
  SubSeq(line, 1, (CHOOSE i \in 1..Len(line) : line[i] = ":" /\ \A j \in 1..(i - 1) : line[j] # ":") - 1)

Loaded == call = "load_stats_report"

\* C7: after load_stats_report the file holds only the new report: eight lines
\* (title, rule, four statistics, second title, rule), then exactly one line
\* "<state>: $<total>" per key of the totals, in strictly ascending
\* lexicographic order of the labels whatever the insertion order was.
C7_ReportSortedOverwrites ==
  Loaded =>
    LET totals == arg[2]
        n == Len(totals)
    IN /\ Len(out.file) = 1
       /\ Len(out.file[1]) = 8 + n
       /\ out.file[1][1] = TitleLine
       /\ out.file[1][7] = TotalsTitleLine
       /\ out.file[1][8] = RuleLine
       /\ {LabelOf(out.file[1][8 + i]) : i \in 1..n} = DictKeys(totals)
       /\ \A i \in 1..n :
            out.file[1][8 + i] =
              LabelOf(out.file[1][8 + i]) \o <<":", " ", "$">>
                \o Fmt2(DictGet(totals, LabelOf(out.file[1][8 + i])))
       /\ \A i \in 1..(n - 1) :
            LexLess(LabelOf(out.file[1][8 + i]), LabelOf(out.file[1][8 + i + 1]))

C7_Witness ==
  /\ Loaded
  /\ arg[2] = << <<<<"N", "Y">>, Fin(30, 1)>>, <<<<"C", "A">>, Fin(21, 2)>> >>
  /\ arg[3].file = <<OldReport>>
  /\ out.file[1][9] = <<"C", "A", ":", " ", "$", "1", "0", ".", "5", "0">>
  /\ out.file[1][10] = <<"N", "Y", ":", " ", "$", "3", "0", ".", "0", "0">>

\* C8: on a file with both columns and no valid row (no data row, or only
\* skipped rows) extract returns the empty list and the empty dict without
\* raising, and the run raises the no-data ValueError in transform, load is
\* not entered and the output location is as it was.
C8_NoValidRowsNoData ==
  (inputFile.exists /\ HasBoth(inputFile) /\ ValidRows(inputFile) = <<>>) =>
    /\ Extracted =>
         /\ result.exc = NoExc
         /\ result.ret = << <<>>, <<>> >>
         /\ result.rows_read = Len(inputFile.rows)
    /\ Ran =>
         /\ result.exc = Exc("ValueError", 94)
         /\ StagesOf(result.events) = <<"extract_csv_orders", "transform_orders_to_stats">>
         /\ out = arg[1]

C8_Witness ==
  /\ Ran
  /\ HasBoth(inputFile)
  /\ Len(inputFile.rows) = 2
  /\ ValidRows(inputFile) = <<>>
  /\ result.exc.type = "ValueError"
  /\ out = NoOutput

\* C9: on a path that does not exist extract raises FileNotFoundError from the
\* existence check (line 48), not the missing-column KeyError, without opening
\* the file or reading a row, and returns nothing.
C9_FileNotFoundFirst ==
  (Extracted /\ ~inputFile.exists) =>
    /\ result.exc = Exc("FileNotFoundError", 48)
    /\ ~result.opened
    /\ result.rows_read = 0
    /\ result.ret = <<>>

C9_Witness ==
  /\ Extracted
  /\ inputFile = NoFile
  /\ result.exc.type = "FileNotFoundError"

Wrote == Info("CSV: wrote " \o OutputFile)

\* C10: in every run the first event is the start notice, and it is emitted
\* once; the wrote notice comes only after load was entered, the END notice
\* only as the last event; a run that raises emitted neither of the two.
C10_NoticesInOrder ==
  Ran =>
    LET ev == result.events
    IN /\ ev # <<>>
       /\ ev[1] = Info("CSV: START")
       /\ \A i \in 2..Len(ev) : ev[i] # Info("CSV: START")
       /\ \A i \in 1..Len(ev) :
            ev[i] = Wrote => \E j \in 1..(i - 1) : ev[j] = Stage("load_stats_report")
       /\ \A i \in 1..Len(ev) : ev[i] = Info("CSV: END") => i = Len(ev)
       /\ result.exc # NoExc =>
            \A i \in 1..Len(ev) : ev[i] \notin {Wrote, Info("CSV: END")}
       /\ result.exc = NoExc => (Wrote \in Range(ev) /\ ev[Len(ev)] = Info("CSV: END"))

C10_Witness ==
  /\ Ran
  /\ result.exc = Exc("KeyError", 78)
  /\ result.events = <<Info("CSV: START"), Stage("extract_csv_orders")>>

====
